---- MODULE Spec2Model ----
(***************************************************************************)
(* Model of src/agents/tools/baidu/baidu_search.py: the command-line       *)
(* Baidu search tool.  main() parses the arguments, prints a header, calls *)
(* search(), which calls the baidusearch gateway once and normalizes every *)
(* raw record, and then renders the records as text or as one JSON object. *)
(*                                                                         *)
(* Python values are tagged records [t, s, n]: t is the type tag, s the    *)
(* characters of a str (a sequence of one-character strings), n the value  *)
(* of an int.  Non-ASCII characters of the source are written as U+XXXX    *)
(* tokens.                                                                 *)
(***************************************************************************)
EXTENDS Integers, Sequences, FiniteSets, TLC

VARIABLES pc, args, calls, raw, idx, formatted, err, results, out, exit

vars == <<pc, args, calls, raw, idx, formatted, err, results, out, exit>>

----------------------------------------------------------------------------
(* Bounds of the model *)

MaxQueryLen == 2
MaxUrlLen == 3
MaxAbsLen == 2
MaxRank == 2
MaxResults == 2
MaxOver == 2
MaxPad == 1

(* Constants of the program *)

TruncLen == 200
DefaultNum == 10

----------------------------------------------------------------------------
(* Python values *)

Absent == [t |-> "absent", s |-> <<>>, n |-> 0]
None == [t |-> "none", s |-> <<>>, n |-> 0]
PyStr(s) == [t |-> "str", s |-> s, n |-> 0]
PyInt(n) == [t |-> "int", s |-> <<>>, n |-> n]
Raise == [t |-> "raise", s |-> <<>>, n |-> 0]

Strings(chars, maxLen) == UNION {[1..k -> chars] : k \in 0..maxLen}

Rep(c, k) == [j \in 1..k |-> c]

\* dict.get(key, default): the value when the key is present, else the default
Get(v, default) == IF v.t = "absent" THEN default ELSE v

\* Python truthiness of a value (`if abstract:`, `if r['abstract']:`)
Truthy(v) ==
    CASE v.t = "str" -> v.s # <<>>
      [] v.t = "int" -> v.n # 0
      [] OTHER -> FALSE

\* the characters str.strip() removes (of those the model draws)
Whitespace == {" ", "\t"}

RECURSIVE LStrip(_)
LStrip(s) == IF s # <<>> /\ Head(s) \in Whitespace THEN LStrip(Tail(s)) ELSE s

RECURSIVE RStrip(_)
RStrip(s) ==
    IF s # <<>> /\ s[Len(s)] \in Whitespace
    THEN RStrip(SubSeq(s, 1, Len(s) - 1))
    ELSE s

\* str.strip()
Strip(s) == RStrip(LStrip(s))

\* str.startswith(p)
StartsWith(s, p) == Len(s) >= Len(p) /\ SubSeq(s, 1, Len(p)) = p

----------------------------------------------------------------------------
(* search(): normalization of one raw record, lines 44-62 *)

Origin ==
    << "h", "t", "t", "p", "s", ":", "/", "/", "w", "w", "w", ".",
       "b", "a", "i", "d", "u", ".", "c", "o", "m" >>

Source == "U+767E U+5EA6"

\* lines 46-48: abstract = result.get("abstract", ""); strip it when truthy.
\* A truthy value that is no str has no .strip(): AttributeError.
NormAbstract(result) ==
    LET abstract == Get(result.abstract, PyStr(<<>>))
    IN  IF Truthy(abstract)
        THEN IF abstract.t = "str" THEN PyStr(Strip(abstract.s)) ELSE Raise
        ELSE abstract

NormUrlAlwaysPrefix(result) ==
    LET url == Get(result.url, PyStr(<<>>))
    IN  IF url.t # "str" THEN Raise ELSE PyStr(Origin \o url.s)

\* lines 51-53: url = result.get("url", ""); prefix the origin when it starts
\* with "/".  A value that is no str has no .startswith(): AttributeError.
NormUrl(result) ==
    LET url == Get(result.url, PyStr(<<>>))
    IN  IF url.t # "str"
        THEN Raise
        ELSE IF StartsWith(url.s, <<"/">>) THEN PyStr(Origin \o url.s) ELSE url

NoRecord ==
    [title |-> None, url |-> None, abstract |-> None, rank |-> None,
     source |-> ""]

NormalizeNoRankDefault(result) ==
    LET abstract == NormAbstract(result)
        url == NormUrl(result)
    IN  IF abstract.t = "raise" \/ url.t = "raise"
        THEN [raised |-> TRUE, rec |-> NoRecord]
        ELSE [raised |-> FALSE,
              rec |-> [title |-> Get(result.title, PyStr(<<>>)),
                       url |-> url,
                       abstract |-> abstract,
                       rank |-> Get(result.rank, None),
                       source |-> Source]]

\* lines 44-62: the body of the loop for one raw record: the formatted record,
\* or raised when one of its statements raises
Normalize(result) ==
    LET abstract == NormAbstract(result)
        url == NormUrl(result)
    IN  IF abstract.t = "raise" \/ url.t = "raise"
        THEN [raised |-> TRUE, rec |-> NoRecord]
        ELSE [raised |-> FALSE,
              rec |-> [title |-> Get(result.title, PyStr(<<>>)),
                       url |-> url,
                       abstract |-> abstract,
                       rank |-> Get(result.rank, PyInt(0)),
                       source |-> Source]]

NoErr == [raised |-> FALSE, by |-> "", text |-> ""]

\* the exceptions the gateway call raises (network, parsing, provider)
GatewayErrors == {"ConnectionError", "ParseError"}

\* the exception a statement of the loop body raises on a value that is no str
AttributeError == "AttributeError"

ExceptReturnPartial(fmt) == fmt

\* line 68: return []
ExceptReturn(fmt) == <<>>

ExceptNextRetry == "call"

\* lines 66-68: the handler returns to main; the call is not retried
ExceptNext == "main"

----------------------------------------------------------------------------
(* main(): output lines.  k is the kind of the line, n the 1-based index   *)
(* of the record it belongs to (0 when none), v what is shown.             *)

Line(k, n, v) == [k |-> k, n |-> n, v |-> v]

\* line 94: the header with the query
HeaderLine(query) == Line("header", 0, query)

DiagLineNoText(e) == Line("diag", 0, "")

\* line 67: the diagnostic with the text of the error
DiagLine(e) == Line("diag", 0, e)

\* line 99: the "no results" notice
NoticeLine == Line("notice", 0, "U+672A U+627E U+5230 U+7ED3 U+679C")

NotResultsNever(res) == FALSE

\* line 98: `not results`
NotResults(res) == res = <<>>

AfterNoticeFallThrough == "branch"

\* line 100: return
AfterNotice == "done"

Ellipsis == <<".", ".", ".">>

\* s[:n]
Slice(s, n) == SubSeq(s, 1, IF Len(s) < n THEN Len(s) ELSE n)

ShownFromTruncLen(a) ==
    IF Len(a) >= TruncLen THEN Slice(a, TruncLen) \o Ellipsis
    ELSE Slice(a, TruncLen)

\* lines 119-121: the first 200 characters, and "..." when there are more
Shown(a) ==
    IF Len(a) > TruncLen THEN Slice(a, TruncLen) \o Ellipsis
    ELSE Slice(a, TruncLen)

\* lines 115-123: the lines of record r, the i-th of the results
TextLinesFor(i, r) ==
    << Line("title", i, r.title), Line("url", i, r.url) >>
    \o (IF Truthy(r.abstract)
        THEN << Line("abstract", i, Shown(r.abstract.s)) >>
        ELSE << >>)
    \o << Line("blank", i, "") >>

\* lines 114-123: the loop over enumerate(results, 1), from record i on
RECURSIVE TextLines(_, _)
TextLines(res, i) ==
    IF i > Len(res) THEN << >>
    ELSE TextLinesFor(i, res[i]) \o TextLines(res, i + 1)

\* json.dumps of a str, between its quotes: '"' and '\' are escaped, and with
\* ensure_ascii=False every other character is written as it is
RECURSIVE JsonEscape(_)
JsonEscape(s) ==
    IF s = << >> THEN << >>
    ELSE (IF Head(s) \in {"\"", "\\"} THEN << "\\", Head(s) >> ELSE << Head(s) >>)
         \o JsonEscape(Tail(s))

\* what a JSON parser reads back from the text between the quotes
RECURSIVE JsonUnescape(_)
JsonUnescape(s) ==
    IF s = << >> THEN << >>
    ELSE IF Head(s) = "\\" /\ Len(s) >= 2
         THEN << s[2] >> \o JsonUnescape(Tail(Tail(s)))
         ELSE << Head(s) >> \o JsonUnescape(Tail(s))

JsonOutputTotalNum(res, a) ==
    [web |-> [results |-> res], query |-> JsonEscape(a.query), total |-> a.num]

\* lines 104-111: the object printed in JSON mode; query is the text json.dumps
\* writes for it
JsonOutput(res, a) ==
    [web |-> [results |-> res], query |-> JsonEscape(a.query),
     total |-> Len(res)]

ResultKinds == {"notice", "title", "url", "abstract", "blank", "json"}

----------------------------------------------------------------------------
(* Inputs: the command line and what the gateway returns *)

QueryChars == {"a", "\"", "\\", "U+641C"}

Queries == Strings(QueryChars, MaxQueryLen)

Outputs == {"text", "json"}

NoArgs == [query |-> << >>, num |-> 0, output |-> "", debug |-> 0]

\* raw records of a whole run: the record of the documented scenario, a record
\* with no key, a record whose url is no str, a record with a relative url
RawSamples ==
    { [title |-> PyStr(<<"A">>), url |-> PyStr(<<"/", "x">>),
       abstract |-> PyStr(<<" ", " ", "h", "i", " ", " ">>), rank |-> PyInt(1)],
      [title |-> Absent, url |-> Absent, abstract |-> Absent, rank |-> Absent],
      [title |-> PyStr(<<"A">>), url |-> None, abstract |-> Absent,
       rank |-> PyInt(2)],
      [title |-> Absent, url |-> PyStr(<<"x">>), abstract |-> None,
       rank |-> PyInt(3)] }

GatewayResponses == UNION {[1..k -> RawSamples] : k \in 0..MaxResults}

UrlChars == {"/", "a", ":"}

Titles == {Absent, PyStr(<<"A">>)}

Urls == {Absent, None} \cup {PyStr(u) : u \in Strings(UrlChars, MaxUrlLen)}

AbstractChars == {" ", "\t", "a"}

ShortAbstracts ==
    {Absent, None, PyInt(1)}
    \cup {PyStr(a) : a \in Strings(AbstractChars, MaxAbsLen)}

Ranks == {Absent} \cup {PyInt(n) : n \in 1..MaxRank}

\* an abstract of n characters whose characters after the 200th differ
Body(n) == [j \in 1..n |-> IF j > TruncLen THEN "b" ELSE "a"]

LongAbstracts ==
    {PyStr(Rep(" ", p) \o Body(n) \o Rep(" ", q)) :
        p \in 0..MaxPad, q \in 0..MaxPad,
        n \in (TruncLen - 1)..(TruncLen + MaxOver)}

\* every raw record over the small values, and the records with a long abstract
RecordInputs ==
    [title : Titles, url : Urls, abstract : ShortAbstracts, rank : Ranks]
    \cup [title : {PyStr(<<"A">>)}, url : {PyStr(<<"/", "a">>)},
          abstract : LongAbstracts, rank : {PyInt(1)}]

----------------------------------------------------------------------------
(* The program *)

Init ==
    /\ pc = "import"
    /\ args = NoArgs
    /\ calls = 0
    /\ raw = << >>
    /\ idx = 0
    /\ formatted = << >>
    /\ err = NoErr
    /\ results = << >>
    /\ out = << >>
    /\ exit = -1

\* lines 18-19: the import of baidusearch succeeds
ImportOk ==
    /\ pc = "import"
    /\ pc' = "parse"
    /\ UNCHANGED <<args, calls, raw, idx, formatted, err, results, out, exit>>

\* lines 20-23: the import fails: two lines and sys.exit(1)
ImportFail ==
    /\ pc = "import"
    /\ out' = << Line("importerror", 0, "baidusearch"),
                 Line("importerror", 0, "pip install baidusearch") >>
    /\ exit' = 1
    /\ pc' = "exit"
    /\ UNCHANGED <<args, calls, raw, idx, formatted, err, results>>

\* lines 73-92: parse_args() accepts the command line
ParseArgs ==
    /\ pc = "parse"
    /\ \E q \in Queries, o \in Outputs, d \in {0, 1} :
          args' = [query |-> q, num |-> DefaultNum, output |-> o, debug |-> d]
    /\ pc' = "header"
    /\ UNCHANGED <<calls, raw, idx, formatted, err, results, out, exit>>

\* line 92: parse_args() rejects the command line and exits with status 2
ParseFail ==
    /\ pc = "parse"
    /\ exit' = 2
    /\ pc' = "exit"
    /\ UNCHANGED <<args, calls, raw, idx, formatted, err, results, out>>

\* line 94
PrintHeader ==
    /\ pc = "header"
    /\ out' = Append(out, HeaderLine(args.query))
    /\ pc' = "call"
    /\ UNCHANGED <<args, calls, raw, idx, formatted, err, results, exit>>

\* lines 40-44: the gateway returns its records; the loop starts
GatewayReturn ==
    /\ pc = "call"
    /\ \E rs \in GatewayResponses : raw' = rs
    /\ calls' = calls + 1
    /\ formatted' = << >>
    /\ idx' = 1
    /\ pc' = "loop"
    /\ UNCHANGED <<args, err, results, out, exit>>

\* line 40: the gateway call raises
GatewayRaise ==
    /\ pc = "call"
    /\ \E e \in GatewayErrors : err' = [raised |-> TRUE, by |-> "gateway", text |-> e]
    /\ calls' = calls + 1
    /\ pc' = "except"
    /\ UNCHANGED <<args, raw, idx, formatted, results, out, exit>>

\* lines 44-62: one turn of the loop
NormalizeStep ==
    /\ pc = "loop"
    /\ idx <= Len(raw)
    /\ LET n == Normalize(raw[idx])
       IN  IF n.raised
           THEN /\ err' = [raised |-> TRUE, by |-> "normalize",
                           text |-> AttributeError]
                /\ pc' = "except"
                /\ UNCHANGED <<formatted, idx>>
           ELSE /\ formatted' = Append(formatted, n.rec)
                /\ idx' = idx + 1
                /\ UNCHANGED <<err, pc>>
    /\ UNCHANGED <<args, calls, raw, results, out, exit>>

\* line 64: return formatted_results
SearchReturn ==
    /\ pc = "loop"
    /\ idx > Len(raw)
    /\ results' = formatted
    /\ pc' = "main"
    /\ UNCHANGED <<args, calls, raw, idx, formatted, err, out, exit>>

\* lines 66-68: except Exception as e
SearchExcept ==
    /\ pc = "except"
    /\ out' = Append(out, DiagLine(err.text))
    /\ results' = ExceptReturn(formatted)
    /\ pc' = ExceptNext
    /\ UNCHANGED <<args, calls, raw, idx, formatted, err, exit>>

\* lines 98-100: no results: the notice, and main returns
MainNoResults ==
    /\ pc = "main"
    /\ NotResults(results)
    /\ out' = Append(out, NoticeLine)
    /\ pc' = AfterNotice
    /\ exit' = IF AfterNotice = "done" THEN 0 ELSE exit
    /\ UNCHANGED <<args, calls, raw, idx, formatted, err, results>>

\* line 98: there are results
MainHasResults ==
    /\ pc = "main"
    /\ ~NotResults(results)
    /\ pc' = "branch"
    /\ UNCHANGED <<args, calls, raw, idx, formatted, err, results, out, exit>>

\* lines 102-111
RenderJson ==
    /\ pc = "branch"
    /\ args.output = "json"
    /\ out' = Append(out, Line("json", 0, JsonOutput(results, args)))
    /\ pc' = "done"
    /\ exit' = 0
    /\ UNCHANGED <<args, calls, raw, idx, formatted, err, results>>

\* lines 112-123
RenderText ==
    /\ pc = "branch"
    /\ args.output # "json"
    /\ out' = out \o TextLines(results, 1)
    /\ pc' = "done"
    /\ exit' = 0
    /\ UNCHANGED <<args, calls, raw, idx, formatted, err, results>>

Next ==
    \/ ImportOk
    \/ ImportFail
    \/ ParseArgs
    \/ ParseFail
    \/ PrintHeader
    \/ GatewayReturn
    \/ GatewayRaise
    \/ NormalizeStep
    \/ SearchReturn
    \/ SearchExcept
    \/ MainNoResults
    \/ MainHasResults
    \/ RenderJson
    \/ RenderText

Spec == Init /\ [][Next]_vars

\* the state in which the gateway has returned one raw record to search()
InitRecord ==
    /\ pc = "loop"
    /\ \E o \in Outputs :
          args = [query |-> <<"a">>, num |-> DefaultNum, output |-> o,
                  debug |-> 0]
    /\ calls = 1
    /\ \E r \in RecordInputs : raw = << r >>
    /\ idx = 1
    /\ formatted = << >>
    /\ err = NoErr
    /\ results = << >>
    /\ out = << HeaderLine(<<"a">>) >>
    /\ exit = -1

NextRecord ==
    \/ NormalizeStep
    \/ SearchReturn
    \/ SearchExcept
    \/ MainNoResults
    \/ MainHasResults
    \/ RenderJson
    \/ RenderText

\* search() and main() from one raw record on, over every raw record
SpecRecord == InitRecord /\ [][NextRecord]_vars

----------------------------------------------------------------------------
(* Properties *)

AfterSearch == pc \in {"main", "branch", "done"}

\* the records normalized so far: the list being built, then what search returned
Normalized == IF AfterSearch THEN results ELSE formatted

Kinds(ks) == {m \in 1..Len(out) : out[m].k \in ks}

AbstractLinesOf(j) == {m \in 1..Len(out) : out[m].k = "abstract" /\ out[m].n = j}

Keys == {"title", "url", "abstract", "rank"}

MissingKeys(r) == {key \in Keys : r[key].t = "absent"}

\* the keys that are present hold what the gateway's interface says they hold
WellTyped(r) ==
    /\ r.title.t \in {"absent", "str"}
    /\ r.url.t \in {"absent", "str"}
    /\ r.abstract.t \in {"absent", "str"}
    /\ r.rank.t \in {"absent", "int"}

\* a URL with a scheme: characters other than "/" and ":", then ":"
IsAbsoluteUrl(s) ==
    \E k \in 2..Len(s) :
        /\ s[k] = ":"
        /\ \A m \in 1..(k - 1) : s[m] \notin {"/", ":"}

\* C1: when the gateway call raises, search does not propagate the error: it
\* prints one diagnostic line holding the error text and returns the empty
\* sequence, and main then prints the "no results" notice and nothing else:
\* no record line and no JSON object.
C1_GatewayErrorContained ==
    err.by = "gateway" =>
        /\ pc \in {"except", "main", "done"}
        /\ err.text \in GatewayErrors
        /\ AfterSearch =>
              /\ results = << >>
              /\ Cardinality(Kinds({"diag"})) = 1
              /\ out[2] = Line("diag", 0, err.text)
        /\ pc = "done" =>
              /\ out = << Line("header", 0, args.query),
                          Line("diag", 0, err.text), NoticeLine >>
              /\ exit = 0

C1_Witness ==
    /\ pc = "done"
    /\ err.by = "gateway"
    /\ args.output = "json"
    /\ Len(out) = 3

\* C2: a raw record that is missing any subset of the keys title, url,
\* abstract, rank (its present keys holding a str, or an int for rank) never
\* makes the loop body raise, and its normalized record has all five fields,
\* every missing key at its default: "" for title, url and abstract, 0 for
\* rank; source is the constant of the program in every normalized record.
C2_MissingKeysDefault ==
    /\ \A j \in 1..Len(raw) :
          (WellTyped(raw[j]) /\ MissingKeys(raw[j]) # {}) =>
              /\ ~(err.by = "normalize" /\ idx = j)
              /\ (pc = "loop" /\ idx > j) => Len(formatted) >= j
              /\ (AfterSearch /\ ~err.raised) => Len(results) >= j
              /\ j <= Len(Normalized) =>
                    LET f == Normalized[j]
                    IN  /\ DOMAIN f = Keys \cup {"source"}
                        /\ \A key \in Keys :
                              /\ f[key].t \in {"str", "int"}
                              /\ key \notin MissingKeys(raw[j]) =>
                                    (key \in {"title", "rank"} => f[key] = raw[j][key])
                              /\ key \in MissingKeys(raw[j]) =>
                                    f[key] = IF key = "rank" THEN PyInt(0)
                                             ELSE PyStr(<< >>)
    /\ \A j \in 1..Len(Normalized) : Normalized[j].source = "U+767E U+5EA6"

C2_Witness ==
    /\ pc = "done"
    /\ ~err.raised
    /\ Len(results) = 1
    /\ MissingKeys(raw[1]) = Keys
    /\ results[1].rank = PyInt(0)
    /\ results[1].url = PyStr(<< >>)

\* C3: in every normalized record, a raw url that starts with "/" has become
\* "https://www.baidu.com" followed by the raw url, and every other raw url
\* is kept as it was.
C3_UrlPrefixOrIdentity ==
    \A j \in 1..Len(Normalized) :
        LET u == raw[j].url
        IN  u.t = "str" =>
                Normalized[j].url =
                    IF u.s # << >> /\ u.s[1] = "/"
                    THEN PyStr(Origin \o u.s)
                    ELSE u

C3_Witness ==
    /\ pc = "done"
    /\ Len(results) = 1
    /\ raw[1].url = PyStr(<<"/", "a">>)
    /\ results[1].url = PyStr(Origin \o <<"/", "a">>)

\* C4: the url of every normalized record is an absolute URL, or the empty
\* string; no normalized record carries a relative url.
C4_UrlAlwaysAbsolute ==
    \A j \in 1..Len(Normalized) :
        LET u == Normalized[j].url
        IN  u.t = "str" /\ (u.s = << >> \/ IsAbsoluteUrl(u.s))

\* C5: in text mode a record whose abstract has more than 200 characters is
\* shown with exactly one abstract line, its first 200 characters followed by
\* "..."; a record whose abstract is not empty and has at most 200 characters
\* is shown with exactly one abstract line, the whole abstract and nothing more.
C5_AbstractTruncation ==
    (pc = "done" /\ args.output = "text") =>
        \A j \in 1..Len(results) :
            LET a == results[j].abstract
            IN  (a.t = "str" /\ a.s # << >>) =>
                    /\ Cardinality(AbstractLinesOf(j)) = 1
                    /\ \A m \in AbstractLinesOf(j) :
                          out[m].v =
                              IF Len(a.s) > 200
                              THEN SubSeq(a.s, 1, 200) \o <<".", ".", ".">>
                              ELSE a.s

C5_Witness ==
    /\ pc = "done"
    /\ args.output = "text"
    /\ Len(results) = 1
    /\ results[1].abstract.t = "str"
    /\ Len(results[1].abstract.s) = TruncLen + 1
    /\ \E m \in AbstractLinesOf(1) : Len(out[m].v) = TruncLen + 3

\* C6: when search returned the empty sequence, main, in text mode and in
\* json mode, ends normally having printed the "no results" notice once and
\* last, no record line and no JSON object; the output-format branch is never
\* taken with an empty sequence.
C6_EmptyShortCircuits ==
    /\ pc = "branch" => results # << >>
    /\ (pc = "done" /\ results = << >>) =>
          /\ exit = 0
          /\ Cardinality(Kinds({"notice"})) = 1
          /\ out[Len(out)] = NoticeLine
          /\ Kinds({"json", "title", "url", "abstract", "blank"}) = {}

C6_Witness ==
    /\ pc = "done"
    /\ results = << >>
    /\ err.by = "normalize"
    /\ args.output = "json"
    /\ out[Len(out)] = NoticeLine

GatewayReturnedNone == pc = "done" /\ ~err.raised /\ raw = << >> /\ calls = 1

\* C7 as stated: with --output json and zero records from the gateway, the
\* program prints a JSON object whose total is 0 and whose results is empty.
C7_JsonEmptyObject ==
    (GatewayReturnedNone /\ args.output = "json") =>
        \E m \in Kinds({"json"}) :
            out[m].v.total = 0 /\ out[m].v.web.results = << >>

\* C7 amended: with --output json and zero records from the gateway, the
\* program prints the "no results" notice after the header and no JSON object.
C7_JsonEmptyNotice ==
    (GatewayReturnedNone /\ args.output = "json") =>
        /\ out = << Line("header", 0, args.query), NoticeLine >>
        /\ Kinds({"json"}) = {}

C7_Witness ==
    /\ GatewayReturnedNone
    /\ args.output = "json"
    /\ Len(out) = 2

\* C8: every JSON object that is printed has a total equal to the length of
\* its web.results, and a query text that reads back as the query argument,
\* character for character.
C8_JsonTotalAndQuery ==
    \A m \in Kinds({"json"}) :
        /\ out[m].v.total = Len(out[m].v.web.results)
        /\ out[m].v.web.results # << >>
        /\ JsonUnescape(out[m].v.query) = args.query

C8_Witness ==
    /\ pc = "done"
    /\ Kinds({"json"}) # {}
    /\ args.query = << "\\", "\"" >>
    /\ Len(results) = 2

\* C9: search returns one normalized record per raw record, in the gateway's
\* order, or the empty sequence; when normalizing any raw record raises, the
\* records normalized before it are dropped and the result is empty.
C9_AllInOrderOrEmpty ==
    AfterSearch =>
        /\ \/ results = << >>
           \/ /\ Len(results) = Len(raw)
              /\ \A j \in 1..Len(raw) :
                    /\ ~Normalize(raw[j]).raised
                    /\ results[j] = Normalize(raw[j]).rec
        /\ (\E j \in 1..Len(raw) : Normalize(raw[j]).raised) => results = << >>
        /\ err.raised => results = << >>
        /\ (~err.raised) => Len(results) = Len(raw)

C9_Witness ==
    /\ pc = "done"
    /\ Len(raw) = 2
    /\ ~Normalize(raw[1]).raised
    /\ Normalize(raw[2]).raised
    /\ Len(formatted) = 1
    /\ results = << >>

\* C10: a run that gets past argument parsing calls the gateway exactly once:
\* never more than once, once by the time search is past the call, before any
\* result line or "no results" notice is printed, and never again afterwards.
C10_ExactlyOneCall ==
    /\ [](/\ calls \in {0, 1}
          /\ pc \in {"loop", "except", "main", "branch", "done"} => calls = 1
          /\ pc \in {"import", "parse", "header", "call", "exit"} => calls = 0
          /\ Kinds(ResultKinds) # {} => calls = 1)
    /\ [][/\ calls' >= calls
          /\ calls' # calls => (pc = "call" /\ Kinds(ResultKinds) = {})]_vars

C10_Witness ==
    /\ pc = "done"
    /\ calls = 1
    /\ args.output = "text"
    /\ Len(results) = 2
    /\ Kinds({"title"}) # {}

====
